---- MODULE Spec2Model ----
(***************************************************************************)
(* Model of the audio WebSocket bridge of services/openai-whisper-proxy    *)
(* (main.py, ws_proxy and its nested flush_audio).  One handler coroutine  *)
(* runs per connection; its steps are the stretches of code between two    *)
(* awaits (ws.receive, redis.xadd, client.audio.transcriptions.create,     *)
(* ws.close).  The locals of one handler are one record, ws[c].            *)
(***************************************************************************)
EXTENDS Integers, Sequences, FiniteSets, TLC

(* ----------------------------- bounds ---------------------------------- *)
MaxFrames   == 3     \* binary frames one connection receives
MaxTexts    == 2     \* text frames one connection receives
MaxFrameLen == 1     \* bytes in one binary frame (0 = empty frame)
MaxClock    == 10    \* the event-loop clock stops advancing here

(* -------------------------- program constants -------------------------- *)
CHUNK_SECONDS == 5   \* main.py:11, default of the CHUNK_SECONDS setting

Conns == {1, 2}      \* connections the server can accept
Solo  == {1}         \* the connection that is opened under Spec

None == "<None>"     \* Python None / JSON null / absent key

VARIABLES
    ws,       \* ws[c]: locals of the ws_proxy coroutine serving connection c
    clock,    \* asyncio event-loop time, in seconds
    stream,   \* entries appended to the Redis stream STREAM_NAME, oldest first
    uuids,    \* number of uuid.uuid4() values drawn so far
    hc        \* locals of OpenAIWhisperServer.handle_client (openai-whisper/server.py)

vars == <<ws, clock, stream, uuids, hc>>

(* ----------------------------- helpers --------------------------------- *)
\* Python truthiness of an Optional[str]
Truthy(v) == v # None /\ v # ""

\* `a or b` on Optional[str]
Or(a, b) == IF Truthy(a) THEN a ELSE b

\* `if redis`: _startup has run before any connection is served
RedisReady == TRUE

\* str(uuid.uuid4()): the n-th value drawn differs from every other one
Uuid4(n) == "uuid-" \o ToString(n)

\* f"{x}" in place of f"{x:.3f}"
FmtPlain(x) == ToString(x)

\* f"{x:.3f}" for the offsets, which are whole multiples of CHUNK_SECONDS
Fmt3(x) == ToString(x) \o ".000"

\* datetime.utcnow().isoformat() + "Z"
IsoNow == ToString(clock) \o "Z"

\* resp.text of the transcription backend: a function of the audio submitted
Transcribe(audio) == [transcript_of |-> audio]

\* now - last_send >= CHUNK_SECONDS
IsDue(now, last_send) == now - last_send >= CHUNK_SECONDS

(* ------------------------- inbound messages ---------------------------- *)
\* A text frame, described by what json.loads makes of it.
\*   json: "invalid" (JSONDecodeError), "scalar" (number, true, null),
\*         "array" (list or string: has `in`, has no .get), "object"
TextFrame(json, keys, token, platform, meeting_id, uid, type, payload, event_type, participant_name) ==
    [json |-> json, keys |-> keys, token |-> token, platform |-> platform,
     meeting_id |-> meeting_id, uid |-> uid, type |-> type, payload |-> payload,
     event_type |-> event_type, participant_name |-> participant_name]

IdentityKeys == {"token", "platform", "meeting_id"}

IdentityFrame(token, platform, meeting_id, uid) ==
    TextFrame("object", IdentityKeys \cup (IF uid = None THEN {} ELSE {"uid"}),
              token, platform, meeting_id, uid, None, "absent", None, None)

SpeakerFrame(event_type, participant_name) ==
    TextFrame("object", {"type", "payload"}, None, None, None, None,
              "speaker_activity", "dict", event_type, participant_name)

OtherFrame(json, type, payload) ==
    TextFrame(json, IF json = "object" THEN {"type"} ELSE {}, None, None, None, None,
              type, payload, None, None)

TextFrames ==
    { IdentityFrame("t1", "zoom", "m1", None),
      IdentityFrame("t1", "zoom", "m1", "u1"),
      IdentityFrame("",   "zoom", "m1", None),
      IdentityFrame("t2", "meet", "m2", None),
      SpeakerFrame("SPEAKER_START", "alice"),
      SpeakerFrame("SPEAKER_START", None),
      SpeakerFrame("SPEAKER_END", "alice"),
      SpeakerFrame("SPEAKER_END", "bob"),
      OtherFrame("object", "speaker_activity", "scalar"),
      OtherFrame("object", "ping", "absent"),
      OtherFrame("invalid", None, "absent"),
      OtherFrame("scalar", None, "absent"),
      OtherFrame("array", None, "absent") }

\* The bytes of the next binary frame of connection c: len fresh bytes, each
\* named by its position in the connection's inbound audio.
NextFrame(s, len) == [i \in 1..len |-> s.nbytes + i]

(* ------------------------ ws_proxy: the locals ------------------------- *)
\* lines 46-59, before ws.accept() has returned
InitLocals ==
    [pc |-> "Connecting",
     buf |-> <<>>, speaker |-> "unknown", last_send |-> 0, now |-> 0,
     token |-> None, platform |-> None, meeting_id |-> None, uid |-> None,
     sent_session_start |-> FALSE, offset_sec |-> 0,
     \* the frame of the flush_audio call in progress
     caller |-> "none", audio_bytes |-> <<>>, current_speaker |-> "unknown",
     nonlocal_offset |-> 0, payload |-> <<>>,
     \* exception propagating out of the try block, and the transport
     exc |-> None, closed |-> FALSE,
     \* history: inbound counts, flush_audio calls, backend calls, segments built
     nbytes |-> 0, nframes |-> 0, ntexts |-> 0,
     flushes |-> <<>>, calls |-> <<>>, segments |-> <<>>,
     \* history: outcome of each session_start xadd
     announces |-> <<>>]

\* server.py, handle_client: before a client has connected
InitClient ==
    [pc |-> "Idle",
     transcript |-> "",
     \* history: the messages handled, the records appended to the stream
     \* 'transcription_segments' and the responses sent, each with the
     \* number of the message it belongs to
     messages |-> <<>>, records |-> <<>>, responses |-> <<>>]

Init ==
    /\ ws = [c \in Conns |-> InitLocals]
    /\ clock = 0
    /\ stream = <<>>
    /\ uuids = 0
    /\ hc = InitClient

(* --------------------------- flush_audio ------------------------------- *)
\* flush_audio is left, by return or by exception: its frame is gone
LeaveFlush(s) ==
    [s EXCEPT !.caller = "none", !.audio_bytes = <<>>, !.current_speaker = "unknown",
              !.nonlocal_offset = 0, !.payload = <<>>]

\* `return v` of flush_audio, continued in its caller:
\*   line 146-148 (loop): offset_sec = v; buf = b""; last_send = now
\*                         (now is dead until line 144 sets it again: kept 0)
\*   line 177 (finally):  offset_sec = v; then ws.close() is next
FlushReturn(s, v) ==
    LET r == LeaveFlush(s)
    IN  IF s.caller = "loop"
        THEN [r EXCEPT !.offset_sec = v, !.buf = <<>>, !.last_send = s.now, !.now = 0,
                       !.pc = "Receive"]
        ELSE [r EXCEPT !.offset_sec = v, !.pc = "Close"]

\* line 65 without its test of token
HasContextNoToken(s, audio) ==
    audio # <<>> /\ Truthy(s.platform) /\ Truthy(s.meeting_id)

\* line 65: audio and the three identity fields are all truthy
HasContext(s, audio) ==
    audio # <<>> /\ Truthy(s.token) /\ Truthy(s.platform) /\ Truthy(s.meeting_id)

\* line 70 never true: the session_start block is skipped
NeedSessionStartNever(s) == FALSE

\* line 70 without its `not sent_session_start`
NeedSessionStartAlways(s) == RedisReady

\* line 70: `if redis and not sent_session_start`
NeedSessionStart(s) == RedisReady /\ ~s.sent_session_start

\* the call flush_audio(buf, speaker, offset_sec), up to its first await
FlushAudio(s, caller) ==
    LET f == [s EXCEPT !.caller = caller, !.audio_bytes = s.buf,
                       !.current_speaker = s.speaker, !.nonlocal_offset = s.offset_sec,
                       !.flushes = Append(@, [caller |-> caller, audio |-> s.buf,
                                              offset |-> s.offset_sec,
                                              context |-> HasContext(s, s.buf)])]
    IN  IF ~HasContext(f, f.audio_bytes) THEN FlushReturn(f, f.nonlocal_offset)
        ELSE IF NeedSessionStart(f) THEN [f EXCEPT !.pc = "XaddSessionStart"]
        ELSE [f EXCEPT !.pc = "Transcribe"]

\* line 176 without its test of buf
ResidualAudioAlways(s) == TRUE

\* line 176: `if buf`
ResidualAudio(s) == s.buf # <<>>

\* lines 175-177: the finally block up to its first await
EnterFinally(s) ==
    IF ResidualAudio(s) THEN FlushAudio(s, "finally") ELSE [s EXCEPT !.pc = "Close"]

\* an exception e leaves the try block of lines 133-173
Raise(s, e) == EnterFinally([s EXCEPT !.exc = e, !.now = 0])

\* an exception e leaves flush_audio: out of the loop into the finally block,
\* or out of the finally block, past ws.close(), out of ws_proxy
FlushRaise(s, e) ==
    IF s.caller = "loop" THEN Raise(LeaveFlush(s), e)
    ELSE [LeaveFlush(s) EXCEPT !.exc = e, !.pc = "Done"]

\* line 108 without the chunk duration added
EndTimeStuck(s) == s.nonlocal_offset

\* lines 107-108
StartTime(s) == s.nonlocal_offset
EndTime(s)   == s.nonlocal_offset + CHUNK_SECONDS

(* ------------------------------ actions -------------------------------- *)
\* line 44-48: ws.accept() returns
Accept(c) ==
    /\ ws[c].pc = "Connecting"
    /\ ws' = [ws EXCEPT ![c] = [@ EXCEPT !.pc = "Receive", !.last_send = clock]]
    /\ UNCHANGED <<clock, stream, uuids, hc>>

\* lines 135-137: ws.receive() returns websocket.disconnect
RecvDisconnect(c) ==
    /\ ws[c].pc = "Receive"
    /\ ws' = [ws EXCEPT ![c] = EnterFinally(@)]
    /\ UNCHANGED <<clock, stream, uuids, hc>>

\* lines 142-148: ws.receive() returns a binary frame, one of at most max,
\* of a length in lens
RecvBytesOf(c, lens, max) ==
    /\ ws[c].pc = "Receive"
    /\ ws[c].nframes < max
    /\ \E len \in lens :
          LET s == ws[c]
              t == [s EXCEPT !.buf = s.buf \o NextFrame(s, len), !.now = clock,
                             !.nbytes = @ + len, !.nframes = @ + 1]
          IN  ws' = [ws EXCEPT ![c] = IF IsDue(t.now, t.last_send)
                                      THEN FlushAudio(t, "loop") ELSE [t EXCEPT !.now = 0]]
    /\ UNCHANGED <<clock, stream, uuids, hc>>

RecvBytes(c) == RecvBytesOf(c, 0..MaxFrameLen, MaxFrames)

\* lines 155-161: the identity message
UpdateIdentity(s, m) ==
    [s EXCEPT !.token = m.token, !.platform = m.platform,
              !.meeting_id = m.meeting_id, !.uid = Or(m.uid, s.uid)]

\* lines 164-171 with line 170 not comparing the name: any SPEAKER_END resets
UpdateSpeakerAnyEnd(s, m) ==
    LET name_evt == Or(m.participant_name, "unknown")
    IN  IF m.event_type = "SPEAKER_START" THEN [s EXCEPT !.speaker = name_evt]
        ELSE IF m.event_type = "SPEAKER_END" THEN [s EXCEPT !.speaker = "unknown"]
        ELSE s

\* lines 164-171: the speaker_activity message with a dict payload
UpdateSpeaker(s, m) ==
    LET name_evt == Or(m.participant_name, "unknown")
    IN  IF m.event_type = "SPEAKER_START" THEN [s EXCEPT !.speaker = name_evt]
        ELSE IF m.event_type = "SPEAKER_END" /\ name_evt = s.speaker
             THEN [s EXCEPT !.speaker = "unknown"]
        ELSE s

\* lines 150-173: the text frame m
HandleText(s, m) ==
    IF m.json = "invalid" THEN s                              \* JSONDecodeError: pass
    ELSE IF m.json = "scalar" THEN Raise(s, "TypeError")      \* `k in obj`
    ELSE IF m.json = "array" THEN Raise(s, "AttributeError")  \* obj.get
    ELSE IF IdentityKeys \subseteq m.keys THEN UpdateIdentity(s, m)
    ELSE IF m.type = "speaker_activity"
         THEN IF m.payload = "scalar" THEN Raise(s, "AttributeError")  \* payload_event.get
              ELSE IF m.payload = "absent" THEN s
              ELSE UpdateSpeaker(s, m)
    ELSE s

\* lines 135, 150-173: ws.receive() returns a text frame of the set frames,
\* one of at most max
RecvTextFrom(c, frames, max) ==
    /\ ws[c].pc = "Receive"
    /\ ws[c].ntexts < max
    /\ \E m \in frames :
          ws' = [ws EXCEPT ![c] = HandleText([@ EXCEPT !.ntexts = @ + 1], m)]
    /\ UNCHANGED <<clock, stream, uuids, hc>>

RecvText(c) == RecvTextFrom(c, TextFrames, MaxTexts)

\* lines 72-79
SessionStartPayload(s) ==
    [type |-> "session_start", token |-> s.token, platform |-> s.platform,
     meeting_id |-> s.meeting_id, uid |-> Or(s.uid, Uuid4(uuids + 1)),
     start_timestamp |-> IsoNow]

\* line 81 moved in front of the xadd: the flag is set whatever the outcome
SentAfterXaddAlways(s, ok) == TRUE

\* line 81: the flag after redis.xadd returned (ok) or raised (~ok)
SentAfterXadd(s, ok) == IF ok THEN TRUE ELSE s.sent_session_start

\* lines 71-84 with sent_session_start declared `global`, not `nonlocal`: one
\* flag for all connections
XaddSessionStartGlobalFlag(c) ==
    /\ ws[c].pc = "XaddSessionStart"
    /\ \E ok \in BOOLEAN :
          /\ stream' = IF ok THEN Append(stream, [conn |-> c, payload |-> SessionStartPayload(ws[c])])
                       ELSE stream
          /\ ws' = [d \in Conns |->
                       IF d = c
                       THEN [ws[c] EXCEPT !.sent_session_start = SentAfterXadd(ws[c], ok),
                                          !.announces = Append(@, ok),
                                          !.pc = "Transcribe"]
                       ELSE [ws[d] EXCEPT !.sent_session_start = SentAfterXadd(ws[d], ok)]]
    /\ uuids' = IF Truthy(ws[c].uid) THEN uuids ELSE uuids + 1
    /\ UNCHANGED <<clock, hc>>

\* lines 71-84: redis.xadd of session_start returns or raises
XaddSessionStart(c) ==
    /\ ws[c].pc = "XaddSessionStart"
    /\ \E ok \in BOOLEAN :
          /\ stream' = IF ok THEN Append(stream, [conn |-> c, payload |-> SessionStartPayload(ws[c])])
                       ELSE stream
          /\ ws' = [ws EXCEPT ![c] = [ws[c] EXCEPT !.sent_session_start = SentAfterXadd(ws[c], ok),
                                                   !.announces = Append(@, ok),
                                                   !.pc = "Transcribe"]]
    /\ uuids' = IF Truthy(ws[c].uid) THEN uuids ELSE uuids + 1
    /\ UNCHANGED <<clock, hc>>

\* lines 116-123 with the token written into the platform field
TranscriptionPayloadMixed(s) ==
    [type |-> "transcription", token |-> s.token, platform |-> s.token,
     meeting_id |-> s.meeting_id,
     segments |-> <<[text |-> Transcribe(s.audio_bytes), start |-> Fmt3(StartTime(s)),
                     end |-> Fmt3(EndTime(s)), language |-> None]>>,
     uid |-> Or(s.uid, Uuid4(uuids + 1))]

\* lines 109-123
Segment(s) ==
    [text |-> Transcribe(s.audio_bytes), start |-> Fmt3(StartTime(s)),
     end |-> Fmt3(EndTime(s)), language |-> None]

TranscriptionPayload(s) ==
    [type |-> "transcription", token |-> s.token, platform |-> s.platform,
     meeting_id |-> s.meeting_id, segments |-> <<Segment(s)>>,
     uid |-> Or(s.uid, Uuid4(uuids + 1))]

\* lines 97-125: client.audio.transcriptions.create returns or raises
TranscribeCall(c) ==
    /\ ws[c].pc = "Transcribe"
    /\ \E ok \in BOOLEAN :
          LET s == [ws[c] EXCEPT !.calls = Append(@, [audio |-> ws[c].audio_bytes, ok |-> ok])]
          IN  IF ok
              THEN /\ ws' = [ws EXCEPT ![c] =
                        LET t == [s EXCEPT !.payload = <<TranscriptionPayload(s)>>,
                                           !.segments = Append(@, [audio |-> s.audio_bytes,
                                                                   start_time |-> StartTime(s),
                                                                   end_time |-> EndTime(s)])]
                        IN  IF RedisReady THEN [t EXCEPT !.pc = "XaddTranscription"]
                            ELSE FlushReturn(t, EndTime(t))]
                   /\ uuids' = IF Truthy(s.uid) THEN uuids ELSE uuids + 1
              ELSE /\ ws' = [ws EXCEPT ![c] = FlushRaise(s, "APIError")]
                   /\ UNCHANGED uuids
    /\ UNCHANGED <<clock, stream, hc>>

\* lines 126-131 with the try/except left out: a failed xadd leaves flush_audio
XaddTranscriptionReturnUnguarded(s, ok) ==
    IF ok THEN FlushReturn(s, EndTime(s)) ELSE FlushRaise(s, "RedisError")

\* lines 128-131: the except clause only logs, then `return end_time`
XaddTranscriptionReturn(s, ok) == FlushReturn(s, EndTime(s))

\* lines 126-131: redis.xadd of the transcription returns or raises
XaddTranscription(c) ==
    /\ ws[c].pc = "XaddTranscription"
    /\ \E ok \in BOOLEAN :
          /\ stream' = IF ok THEN Append(stream, [conn |-> c, payload |-> ws[c].payload[1]])
                       ELSE stream
          /\ ws' = [ws EXCEPT ![c] = XaddTranscriptionReturn(ws[c], ok)]
    /\ UNCHANGED <<clock, uuids, hc>>

\* line 178: ws.close() returns; a pending exception then leaves ws_proxy
Close(c) ==
    /\ ws[c].pc = "Close"
    /\ ws' = [ws EXCEPT ![c] = [@ EXCEPT !.closed = TRUE, !.pc = "Done"]]
    /\ UNCHANGED <<clock, stream, uuids, hc>>

\* time passes on the event loop, by a chunk duration or by just less than
\* one, up to max
TickUpTo(max) ==
    /\ \E d \in {CHUNK_SECONDS - 1, CHUNK_SECONDS} :
          /\ clock + d <= max
          /\ clock' = clock + d
    /\ UNCHANGED <<ws, stream, uuids, hc>>

Tick == TickUpTo(MaxClock)

Step(c) ==
    \/ Accept(c)
    \/ RecvDisconnect(c)
    \/ RecvBytes(c)
    \/ RecvText(c)
    \/ XaddSessionStart(c)
    \/ TranscribeCall(c)
    \/ XaddTranscription(c)
    \/ Close(c)

Next == Tick \/ \E c \in Solo : Step(c)

Spec == Init /\ [][Next]_vars

(* ------------------- several connections at a time --------------------- *)
\* The handlers of all connections run on one event loop and interleave at
\* their awaits.  Each connection receives fewer frames than under Spec.
ConcFrames == 1      \* binary frames one connection receives
ConcTexts  == 1      \* text frames one connection receives
ConcClock  == 5      \* the event-loop clock stops advancing here

ConcTextFrames ==
    { IdentityFrame("t1", "zoom", "m1", None),
      OtherFrame("scalar", None, "absent") }

StepConc(c) ==
    \/ Accept(c)
    \/ RecvDisconnect(c)
    \/ RecvBytesOf(c, {1}, ConcFrames)
    \/ RecvTextFrom(c, ConcTextFrames, ConcTexts)
    \/ XaddSessionStart(c)
    \/ TranscribeCall(c)
    \/ XaddTranscription(c)
    \/ Close(c)

TickConc == TickUpTo(ConcClock)

NextConc == TickConc \/ \E c \in Conns : StepConc(c)

SpecConc == Init /\ [][NextConc]_vars

(* --------- services/openai-whisper/server.py: handle_client ------------ *)
MaxMessages == 3     \* messages the client sends

Raised == "<raised>" \* the OpenAI call raised instead of returning a transcript

\* what openai_client.audio.transcriptions.create can do with a message
BackendResults == {Raised, "", "  ", "hello"}

\* lines 37-61 with `return str(e)` in the except clause
TranscribeAudioErrorText(result) == IF result = Raised THEN "error" ELSE result

\* lines 37-61, transcribe_audio: the transcript, "" when anything raised
TranscribeAudio(result) == IF result = Raised THEN "" ELSE result

\* str.strip() on the transcripts of BackendResults
Strip(text) == IF text = "  " THEN "" ELSE text

\* line 63-69: a client connects and the handler waits for its first message
Connect ==
    /\ hc.pc = "Idle"
    /\ hc' = [hc EXCEPT !.pc = "Iterate"]
    /\ UNCHANGED <<ws, clock, stream, uuids>>

\* lines 69-74: the next message is bytes
ReceiveBytes ==
    /\ hc.pc = "Iterate"
    /\ Len(hc.messages) < MaxMessages
    /\ \E result \in BackendResults :
          LET transcript == TranscribeAudio(result)
              h == [hc EXCEPT !.messages = Append(@, [kind |-> "bytes", result |-> result])]
          IN  hc' = IF Strip(transcript) # ""
                    THEN [h EXCEPT !.transcript = transcript, !.pc = "Xadd"]
                    ELSE h
    /\ UNCHANGED <<ws, clock, stream, uuids>>

\* lines 96-103: the next message is str, valid JSON or not
ReceiveStr ==
    /\ hc.pc = "Iterate"
    /\ Len(hc.messages) < MaxMessages
    /\ \E valid \in BOOLEAN :
          hc' = [hc EXCEPT !.messages = Append(@, [kind |-> "str",
                               result |-> IF valid THEN "json" ELSE "JSONDecodeError"])]
    /\ UNCHANGED <<ws, clock, stream, uuids>>

\* lines 69, 105-106: the connection is closed while waiting for a message
ConnectionClosed ==
    /\ hc.pc = "Iterate"
    /\ hc' = [hc EXCEPT !.pc = "Done"]
    /\ UNCHANGED <<ws, clock, stream, uuids>>

\* lines 76-87, 107-108: redis_client.xadd returns, or raises and ends the handler
RedisXadd ==
    /\ hc.pc = "Xadd"
    /\ \E ok \in BOOLEAN :
          hc' = IF ok
                THEN [hc EXCEPT !.records = Append(@, [text |-> hc.transcript,
                                                       message |-> Len(hc.messages)]),
                                !.pc = "Send"]
                ELSE [hc EXCEPT !.transcript = "", !.pc = "Done"]
    /\ UNCHANGED <<ws, clock, stream, uuids>>

\* lines 90-94, 105-108: websocket.send returns, or raises and ends the handler
WebsocketSend ==
    /\ hc.pc = "Send"
    /\ \E ok \in BOOLEAN :
          hc' = IF ok
                THEN [hc EXCEPT !.responses = Append(@, [text |-> hc.transcript,
                                                         message |-> Len(hc.messages)]),
                                !.transcript = "", !.pc = "Iterate"]
                ELSE [hc EXCEPT !.transcript = "", !.pc = "Done"]
    /\ UNCHANGED <<ws, clock, stream, uuids>>

NextServer ==
    \/ Connect
    \/ ReceiveBytes
    \/ ReceiveStr
    \/ ConnectionClosed
    \/ RedisXadd
    \/ WebsocketSend

SpecServer == Init /\ [][NextServer]_vars

TypeOK ==
    /\ clock \in 0..MaxClock
    /\ uuids \in Nat
    /\ \A c \in Conns :
          ws[c].pc \in {"Connecting", "Receive", "XaddSessionStart", "Transcribe",
                        "XaddTranscription", "Close", "Done"}
(* ------------------------ vocabulary of the claims --------------------- *)
\* positions in the stream of connection c's events of one type
EventsOf(c, type) ==
    {i \in DOMAIN stream : stream[i].conn = c /\ stream[i].payload.type = type}

\* the connection states of the design: accepted and inside the receive loop
Active(s) == s.pc = "Receive" \/ s.caller = "loop"

\* the receive loop has been left: finally block, or handler finished
LeftLoop(s) == s.pc \in {"Close", "Done"} \/ s.caller = "finally"

IdentityComplete(s) == Truthy(s.token) /\ Truthy(s.platform) /\ Truthy(s.meeting_id)

Last(q) == q[Len(q)]

\* this step of connection c calls flush_audio
FlushInvoked(c) == Len(ws'[c].flushes) = Len(ws[c].flushes) + 1

\* this step of connection c is a backend call that raises
BackendFails(c) ==
    /\ Len(ws'[c].calls) = Len(ws[c].calls) + 1
    /\ ~Last(ws'[c].calls).ok

\* this step of connection c is a session_start publish that raises
SessionStartFails(c) ==
    /\ ws[c].pc = "XaddSessionStart"
    /\ ws'[c].pc # "XaddSessionStart"
    /\ stream' = stream

\* the audio of the flush_audio calls of a log, one after the other
RECURSIVE Taken(_)
Taken(log) == IF log = <<>> THEN <<>> ELSE Taken(SubSeq(log, 1, Len(log) - 1)) \o Last(log).audio

FinalFlushes(s) == {i \in DOMAIN s.flushes : s.flushes[i].caller = "finally"}

(* ------------------------------- C1 ------------------------------------ *)
\* C1: a connection has at most one session_start event in the stream, and
\* its flag is set exactly when that event is there (a failed publish adds
\* nothing and leaves the flag false).
C1_SessionStartAtMostOnce ==
    \A c \in Conns :
        /\ Cardinality(EventsOf(c, "session_start")) <= 1
        /\ ws[c].sent_session_start <=> EventsOf(c, "session_start") # {}

\* flush_audio was called before identity was complete and twice after the
\* session_start was published
C1_Witness ==
    \E c \in Conns :
        /\ Cardinality(EventsOf(c, "session_start")) = 1
        /\ \E i, j, k \in DOMAIN ws[c].flushes :
              /\ i < j /\ j < k
              /\ ~ws[c].flushes[i].context
              /\ ws[c].flushes[j].context /\ ws[c].flushes[k].context
        /\ Len(ws[c].calls) >= 2

(* ------------------------------- C2 ------------------------------------ *)
\* C2: a flush_audio call made while identity is incomplete calls no backend,
\* publishes nothing and leaves in the buffer the audio it was given.
C2_NoOpKeepsBuffer ==
    [][\A c \in Conns :
          (FlushInvoked(c) /\ ~IdentityComplete(ws[c]))
              => /\ ws'[c].calls = ws[c].calls
                 /\ stream' = stream
                 /\ ws'[c].buf = Last(ws'[c].flushes).audio]_vars

(* ------------------------------- C3 ------------------------------------ *)
\* C3: a backend call that fails in a flush made from the receive loop leaves
\* the connection in the receive loop, with no exception ending the loop.
C3_BackendFailureStaysActive ==
    [][\A c \in Conns :
          (BackendFails(c) /\ ws[c].caller = "loop")
              => (ws'[c].pc = "Receive" /\ ws'[c].exc = None)]_vars

(* ------------------------------- C4 ------------------------------------ *)
\* C4: the audio handed to the successive flush_audio calls of a connection
\* is its inbound audio in arrival order, each byte once.
C4_TakesPartitionInput ==
    \A c \in Conns :
        LET taken == Taken(ws[c].flushes)
        IN  taken = [i \in 1..Len(taken) |-> i]

(* ------------------------------- C5 ------------------------------------ *)
\* the segments built so far on connection c start at 0, follow one another
\* without gap, each is CHUNK_SECONDS long, and offset_sec is the end of the
\* last one (its start while that segment's flush has not yet returned)
SegmentsChain(c) ==
    LET g == ws[c].segments
    IN  /\ \A i \in DOMAIN g :
              /\ g[i].end_time = g[i].start_time + CHUNK_SECONDS
              /\ g[i].start_time = IF i = 1 THEN 0 ELSE g[i - 1].end_time
        /\ ws[c].offset_sec =
              IF g = <<>> THEN 0
              ELSE IF ws[c].pc = "XaddTranscription" THEN Last(g).start_time
              ELSE Last(g).end_time

\* C5: the offset starts at 0 and never decreases, and every segment built by
\* a flush has end = start + CHUNK_SECONDS, start = the offset before the
\* flush, and the offset after the flush = end.
C5_Timeline ==
    [][\A c \in Conns :
          /\ ws'[c].offset_sec >= ws[c].offset_sec
          /\ SegmentsChain(c)
          /\ SegmentsChain(c)']_vars

\* two segments were built, the second by the flush of the finally block
C5_Witness ==
    \E c \in Conns :
        /\ ws[c].pc = "Done"
        /\ Len(ws[c].segments) = 2
        /\ Last(ws[c].flushes).caller = "finally"
        /\ Last(ws[c].flushes).audio = Last(ws[c].segments).audio
        /\ ws[c].offset_sec = 2 * CHUNK_SECONDS

(* ------------------------------- C6 ------------------------------------ *)
\* C6: a flush whose backend call fails advances the offset by CHUNK_SECONDS.
C6_FailedFlushAdvances ==
    [][\A c \in Conns :
          BackendFails(c)
              => ws'[c].offset_sec = ws[c].nonlocal_offset + CHUNK_SECONDS]_vars

(* ------------------------------- C7 ------------------------------------ *)
\* C7: the audio of a failed backend call is submitted to the backend only
\* that once, and no transcription event of it is in the stream.
C7_FailedChunkDropped ==
    \A c \in Conns :
        \A i \in DOMAIN ws[c].calls :
            ~ws[c].calls[i].ok =>
                /\ \A j \in DOMAIN ws[c].calls :
                      j # i => ws[c].calls[j].audio # ws[c].calls[i].audio
                /\ \A k \in EventsOf(c, "transcription") :
                      stream[k].payload.segments[1].text # Transcribe(ws[c].calls[i].audio)

(* ------------------------------- C8 ------------------------------------ *)
\* C8: once the receive loop is left, flush_audio has been called from the
\* finally block exactly once, with the residual buffer, if that buffer is
\* non-empty, and not at all if it is empty; never before the loop is left.
C8_OneFinalFlush ==
    \A c \in Conns :
        LET s == ws[c]
        IN  IF LeftLoop(s) /\ s.buf # <<>>
            THEN /\ Cardinality(FinalFlushes(s)) = 1
                 /\ Last(s.flushes).caller = "finally"
                 /\ Last(s.flushes).audio = s.buf
            ELSE FinalFlushes(s) = {}

\* the peer disconnected with audio buffered, and the handler has finished
C8_Witness ==
    \E c \in Conns :
        /\ ws[c].pc = "Done" /\ ws[c].closed /\ ws[c].exc = None
        /\ Len(ws[c].buf) >= 2
        /\ Len(ws[c].flushes) >= 2
        /\ Cardinality(FinalFlushes(ws[c])) = 1

(* ------------------------------- C9 ------------------------------------ *)
\* C9: a handler that has finished has closed the transport.
C9_FinishedIsClosed ==
    \A c \in Conns : ws[c].pc = "Done" => ws[c].closed

(* ------------------------------- C10 ----------------------------------- *)
\* C10: a failed session_start publish leaves the flag false and goes on to
\* the backend call of the same flush; a successful backend call goes on to
\* the transcription publish whatever the flag; a flush with full context and
\* the flag false attempts the session_start publish; the flag turns true
\* only in a step that appends the session_start event.
C10_SessionStartFailure ==
    [][\A c \in Conns :
          LET s == ws[c]
              t == ws'[c]
          IN  /\ SessionStartFails(c)
                    => /\ ~t.sent_session_start
                       /\ t.pc = "Transcribe"
                       /\ t.caller = s.caller /\ t.audio_bytes = s.audio_bytes
              /\ (s.pc = "Transcribe" /\ Len(t.calls) > Len(s.calls) /\ Last(t.calls).ok)
                    => t.pc = "XaddTranscription"
              /\ (FlushInvoked(c) /\ Last(t.flushes).context /\ ~s.sent_session_start)
                    => t.pc = "XaddSessionStart"
              /\ (~s.sent_session_start /\ t.sent_session_start)
                    => /\ Len(stream') = Len(stream) + 1
                       /\ Last(stream').conn = c
                       /\ Last(stream').payload.type = "session_start"]_vars

\* the session_start publish failed in one flush, whose transcription was
\* published, and succeeded in a later flush
C10_Witness ==
    \E c \in Conns :
        \E i, j \in DOMAIN stream :
            /\ i < j
            /\ stream[i].conn = c /\ stream[i].payload.type = "transcription"
            /\ stream[j].conn = c /\ stream[j].payload.type = "session_start"
            /\ ws[c].sent_session_start
(* ------------------------------- C11 ----------------------------------- *)
\* this step of connection c is a transcription publish that raises
TranscriptionPublishFails(c) ==
    /\ ws[c].pc = "XaddTranscription"
    /\ ws'[c].pc # "XaddTranscription"
    /\ stream' = stream

\* C11: a transcription publish that fails still completes the flush: the
\* offset advances by CHUNK_SECONDS, identity, speaker and flag are kept, no
\* exception is pending, and a flush made from the loop clears the buffer,
\* restarts the flush timer at `now` and returns to the receive loop.
C11_PublishFailureCompletesFlush ==
    [][\A c \in Conns :
          LET s == ws[c]
              t == ws'[c]
          IN  TranscriptionPublishFails(c)
                  => /\ t.offset_sec = s.nonlocal_offset + CHUNK_SECONDS
                     /\ t.sent_session_start = s.sent_session_start
                     /\ <<t.token, t.platform, t.meeting_id, t.uid, t.speaker>>
                            = <<s.token, s.platform, s.meeting_id, s.uid, s.speaker>>
                     /\ t.exc = s.exc
                     /\ s.caller = "loop"
                            => /\ t.buf = <<>>
                               /\ t.last_send = s.now
                               /\ t.pc = "Receive"
                               /\ t.exc = None]_vars

\* a transcription publish failed (a segment was built that is not in the
\* stream), and a later flush published its transcription
C11_Witness ==
    \E c \in Conns :
        /\ Len(ws[c].segments) = 2
        /\ Cardinality(EventsOf(c, "transcription")) = 1
        /\ \E k \in EventsOf(c, "transcription") :
              stream[k].payload.segments[1].text = Transcribe(ws[c].segments[2].audio)
        /\ Active(ws[c])

(* ------------------------------- C12 ----------------------------------- *)
\* C12: a flush_audio call with empty audio, or with token, platform or
\* meeting id missing or empty, calls no backend, publishes nothing and keeps
\* offset and flag; every event in the stream has all three non-empty.
C12_NoContextNoEffect ==
    [][\A c \in Conns :
          LET s == ws[c]
              t == ws'[c]
          IN  /\ (FlushInvoked(c) /\ (Last(t.flushes).audio = <<>> \/ ~IdentityComplete(s)))
                    => /\ t.calls = s.calls
                       /\ stream' = stream
                       /\ t.offset_sec = s.offset_sec
                       /\ t.sent_session_start = s.sent_session_start
                       /\ t.pc \notin {"XaddSessionStart", "Transcribe", "XaddTranscription"}
              /\ \A i \in DOMAIN stream' :
                    /\ stream'[i].payload.token \notin {None, ""}
                    /\ stream'[i].payload.platform \notin {None, ""}
                    /\ stream'[i].payload.meeting_id \notin {None, ""}]_vars

\* flush_audio was called with empty audio, called with audio while the token
\* was empty, and called with full context; both kinds of event were published
C12_Witness ==
    \E c \in Conns :
        /\ \E i, j, k \in DOMAIN ws[c].flushes :
              /\ ws[c].flushes[i].audio = <<>>
              /\ ws[c].flushes[j].audio # <<>> /\ ~ws[c].flushes[j].context
              /\ ws[c].flushes[k].context
        /\ EventsOf(c, "session_start") # {}
        /\ EventsOf(c, "transcription") # {}
(* ------------------------------- C13 ----------------------------------- *)
\* this step of connection c handles a text frame
TextStep(c) == ws'[c].ntexts = ws[c].ntexts + 1

\* C13: a text frame that changes neither identity nor speaker changes
\* nothing: buffer, flag, offset and timer are kept, no flush is called, no
\* exception is raised and the connection stays in the receive loop.
C13_OtherTextIgnored ==
    [][\A c \in Conns :
          LET s == ws[c]
              t == ws'[c]
          IN  (/\ TextStep(c)
               /\ <<t.token, t.platform, t.meeting_id, t.uid, t.speaker>>
                      = <<s.token, s.platform, s.meeting_id, s.uid, s.speaker>>)
                  => /\ t = [s EXCEPT !.ntexts = @ + 1]
                     /\ t.pc = "Receive" /\ t.exc = None]_vars

(* ------------------------------- C14 ----------------------------------- *)
\* the events of connection c in the stream, oldest first
RECURSIVE PayloadsOf(_, _)
PayloadsOf(c, q) ==
    IF q = <<>> THEN <<>>
    ELSE LET rest == PayloadsOf(c, SubSeq(q, 1, Len(q) - 1))
         IN  IF Last(q).conn = c THEN Append(rest, Last(q).payload) ELSE rest

\* the first flush_audio call of connection c came from the loop with full
\* context and has returned; its backend call and both publishes succeeded
FirstFlushSucceeded(c) ==
    LET s == ws[c]
    IN  /\ Len(s.flushes) = 1
        /\ s.flushes[1].caller = "loop" /\ s.flushes[1].context
        /\ s.pc = "Receive"
        /\ s.calls = <<[audio |-> s.flushes[1].audio, ok |-> TRUE]>>
        /\ s.sent_session_start
        /\ EventsOf(c, "transcription") # {}

\* C14: when the first due flush has identity and audio and its backend call
\* and publishes succeed, the connection's events are one session_start then
\* one transcription, whose single segment has start "0.000", end "5.000".
C14_FirstFlushEvents ==
    \A c \in Conns :
        FirstFlushSucceeded(c) =>
            LET ev == PayloadsOf(c, stream)
            IN  /\ Len(ev) = 2
                /\ ev[1].type = "session_start"
                /\ ev[2].type = "transcription"
                /\ Len(ev[2].segments) = 1
                /\ ev[2].segments[1].start = "0.000"
                /\ ev[2].segments[1].end = "5.000"
                /\ ev[2].segments[1].text = Transcribe(ws[c].flushes[1].audio)

\* identity t1/zoom/m1 arrived, then audio, and the first due flush succeeded
C14_Witness ==
    \E c \in Conns :
        /\ FirstFlushSucceeded(c)
        /\ ws[c].token = "t1" /\ ws[c].platform = "zoom" /\ ws[c].meeting_id = "m1"
        /\ Len(ws[c].flushes[1].audio) >= 2
        /\ ws[c].offset_sec = CHUNK_SECONDS

(* ------------------------------- C15 ----------------------------------- *)
SpeakerFrames == {m \in TextFrames : m.type = "speaker_activity" /\ m.payload = "dict"}

\* C15: in every state of the receive loop, a SPEAKER_END frame naming someone
\* other than the active speaker changes nothing, a SPEAKER_END naming the
\* active speaker only resets the speaker to "unknown", and a SPEAKER_START
\* only sets the speaker to the participant named ("unknown" without a name).
C15_SpeakerActivity ==
    \A c \in Conns :
        ws[c].pc = "Receive" =>
            \A m \in SpeakerFrames :
                LET s == ws[c]
                    t == HandleText(s, m)
                    name == IF m.participant_name \in {None, ""} THEN "unknown"
                            ELSE m.participant_name
                IN  /\ (m.event_type = "SPEAKER_END" /\ name # s.speaker) => t = s
                    /\ (m.event_type = "SPEAKER_END" /\ name = s.speaker)
                          => t = [s EXCEPT !.speaker = "unknown"]
                    /\ m.event_type = "SPEAKER_START" => t = [s EXCEPT !.speaker = name]

\* alice is the active speaker after two text frames, with audio buffered: a
\* SPEAKER_END naming bob is among the frames that can come next
C15_Witness ==
    \E c \in Conns :
        /\ ws[c].pc = "Receive"
        /\ ws[c].speaker = "alice"
        /\ ws[c].ntexts = 2
        /\ ws[c].buf # <<>>
        /\ \E m \in SpeakerFrames : m.event_type = "SPEAKER_END" /\ m.participant_name = "bob"
(* ------------------------------- C16 ----------------------------------- *)
\* C16: with the handlers of several connections interleaved at their awaits,
\* a step changes the locals of at most one connection, so no step of one
\* connection (its failures and teardown included) changes another's buffer,
\* identity, speaker, flag, offset or position; and for each connection the
\* offset never decreases and at most one session_start is in the stream.
C16_ConnectionsIsolated ==
    [][/\ \A c, d \in Conns : (c # d /\ ws'[c] # ws[c]) => ws'[d] = ws[d]
       /\ \A c \in Conns :
             /\ ws'[c].offset_sec >= ws[c].offset_sec
             /\ Cardinality({i \in DOMAIN stream' :
                    stream'[i].conn = c /\ stream'[i].payload.type = "session_start"}) <= 1]_vars

\* two connections published alternately; one was ended by a failed backend
\* call without being closed, the other has advanced its offset and is still
\* in its receive loop
C16_Witness ==
    \E c, d \in Conns :
        /\ c # d
        /\ EventsOf(c, "session_start") # {} /\ EventsOf(d, "session_start") # {}
        /\ Len(stream) >= 3 /\ stream[1].conn # stream[2].conn
        /\ ws[c].pc = "Done" /\ ~ws[c].closed /\ ws[c].exc = "APIError"
        /\ ws[d].pc = "Receive" /\ ws[d].offset_sec = CHUNK_SECONDS
        /\ ws[c].offset_sec = 0
(* ------------------------------- C17 ----------------------------------- *)
\* C17: while the client has supplied no uid, all events of the connection
\* in the stream carry one and the same uid.
C17_OneGeneratedUid ==
    \A c \in Conns :
        ~Truthy(ws[c].uid) =>
            \A i, j \in DOMAIN stream :
                (stream[i].conn = c /\ stream[j].conn = c)
                    => stream[i].payload.uid = stream[j].payload.uid

(* ------------------------------- C18 ----------------------------------- *)
Identity(p) == <<p.token, p.platform, p.meeting_id>>

\* C18 as claimed: every transcription published after the connection's
\* session_start carries the session_start's token, platform and meeting id.
C18_SameIdentityAsSessionStart ==
    \A c \in Conns :
        \A j \in EventsOf(c, "session_start") :
            \A k \in EventsOf(c, "transcription") :
                j < k => Identity(stream[k].payload) = Identity(stream[j].payload)

\* this step of connection c appends a transcription event to the stream
TranscriptionPublished(c) ==
    /\ ws[c].pc = "XaddTranscription"
    /\ Len(stream') = Len(stream) + 1

\* C18 as amended: every transcription published carries the token, platform
\* and meeting id the connection holds at that moment, those of the latest
\* identity message; it carries the session_start's whenever the connection
\* still holds the values the session_start was published with.
C18_LatestIdentity ==
    [][\A c \in Conns :
          TranscriptionPublished(c)
              => /\ Last(stream').conn = c
                 /\ Last(stream').payload.type = "transcription"
                 /\ Identity(Last(stream').payload) = Identity(ws[c])
                 /\ \A j \in EventsOf(c, "session_start") :
                       Identity(stream[j].payload) = Identity(ws[c])
                           => Identity(Last(stream').payload) = Identity(stream[j].payload)]_vars

\* a session_start was published for t1/zoom/m1, an identity message then set
\* t2/meet/m2, and a later transcription was published with t2/meet/m2
C18_Witness ==
    \E c \in Conns :
        \E j \in EventsOf(c, "session_start") :
            \E k \in EventsOf(c, "transcription") :
                /\ j < k
                /\ Identity(stream[j].payload) = <<"t1", "zoom", "m1">>
                /\ Identity(stream[k].payload) = <<"t2", "meet", "m2">>

(* ------------------------------- C19 ----------------------------------- *)
\* C19 as claimed: the connection's session_start precedes each of its
\* transcriptions in the stream.
C19_SessionStartFirst ==
    \A c \in Conns :
        \A j \in EventsOf(c, "session_start") :
            \A k \in EventsOf(c, "transcription") : j < k

\* C19 as amended: each transcription of a connection is preceded in the
\* stream by the connection's session_start, unless a session_start publish
\* of that connection has failed.
C19_SessionStartFirstUnlessFailed ==
    \A c \in Conns :
        \A k \in EventsOf(c, "transcription") :
            \/ \E j \in EventsOf(c, "session_start") : j < k
            \/ \E n \in DOMAIN ws[c].announces : ~ws[c].announces[n]

\* one flush published session_start then its transcription, with no publish
\* failure; a second transcription followed
C19_Witness ==
    \E c \in Conns :
        /\ ws[c].announces = <<TRUE>>
        /\ Cardinality(EventsOf(c, "transcription")) = 2
        /\ \A k \in EventsOf(c, "transcription") :
              \E j \in EventsOf(c, "session_start") : j < k
(* ------------------------------- C20 ----------------------------------- *)
\* this step of handle_client takes a binary message whose transcription fails
TranscriptionFails ==
    /\ Len(hc'.messages) = Len(hc.messages) + 1
    /\ Last(hc'.messages).kind = "bytes"
    /\ Last(hc'.messages).result = Raised

\* C20: a binary message whose transcription fails leaves the handler waiting
\* for the next message, with no record appended and no response sent, then or
\* later; and every response sent belongs to a message whose record, with the
\* same text, is in the stream.
C20_FailedTranscriptionSkipped ==
    [][/\ TranscriptionFails
            => /\ hc'.pc = "Iterate"
               /\ hc'.records = hc.records
               /\ hc'.responses = hc.responses
       /\ \A i \in DOMAIN hc'.messages :
             hc'.messages[i].result = Raised
                 => /\ \A r \in DOMAIN hc'.records : hc'.records[r].message # i
                    /\ \A r \in DOMAIN hc'.responses : hc'.responses[r].message # i
       /\ \A r \in DOMAIN hc'.responses :
             \E q \in DOMAIN hc'.records :
                 /\ hc'.records[q].message = hc'.responses[r].message
                 /\ hc'.records[q].text = hc'.responses[r].text]_vars

\* a transcription failed, and the next message was transcribed, appended to
\* the stream and answered
C20_Witness ==
    /\ Len(hc.messages) >= 2
    /\ hc.messages[1].result = Raised
    /\ hc.messages[2].result = "hello"
    /\ \E r \in DOMAIN hc.responses : hc.responses[r].message = 2
    /\ \E q \in DOMAIN hc.records : hc.records[q].message = 2
====
